---------------------------- MODULE Spec2Model ----------------------------
(***************************************************************************)
(* Taxonomy browser: the Taxonomy View (TopicsPage) with its expansion     *)
(* state, the Link Preview Resolver (VideoPreview and its promise chain),  *)
(* the Emphasis Formatter (formatEmphasis) and the Host Router            *)
(* (middleware, three variants).                                           *)
(*                                                                         *)
(* JavaScript strings that the code inspects character by character are    *)
(* sequences of one-character strings; indices are 0-based as in the code  *)
(* and are shifted by one when a TLA+ sequence is indexed.                 *)
(***************************************************************************)
EXTENDS Integers, Sequences, FiniteSets, TLC

VARIABLES
    variant,          \* which TopicsPage: 1 page.tsx, 2 and 3 the two pages of part_000
    topicsData,       \* database.json as imported: its entries in source order
    topics,           \* the useMemo'd, sorted topic array
    expandedTopics,   \* Record<number, boolean>
    expandedSubtypes, \* Record<string, boolean>
    lookups,          \* every VideoPreview instance ever mounted, with its effect's lookup
    alive,            \* the page is mounted
    request,          \* Host Router: the request being routed
    routed,           \* Host Router: the routing decision
    text,             \* Emphasis Formatter: the input string
    parts             \* Emphasis Formatter: the produced segments

vars == <<variant, topicsData, topics, expandedTopics, expandedSubtypes, lookups, alive,
          request, routed, text, parts>>

viewVars == <<variant, topicsData, topics, expandedTopics, expandedSubtypes, lookups, alive>>
routerVars == <<request, routed>>
formatVars == <<text, parts>>

--------------------------------------------------------------------------
(* Bounds *)

\* VideoPreview instances mounted in one session
MaxLookups == 2
\* largest topic or subtype index whose composite key is compared
MaxKeyIdx == 11
\* longest label given to formatEmphasis
MaxTextLen == 4

--------------------------------------------------------------------------
(* JavaScript values *)

\* null / undefined for an optional string; a present string s is <<s>>
Null == <<>>
Some(s) == <<s>>

\* a || b on optional strings: undefined, null and "" are falsy
OrElse(a, b) == IF a = Null \/ a = Some("") THEN b ELSE a

\* !!m[k] on a Record: a missing key reads undefined
Truthy(m, k) == k \in DOMAIN m /\ m[k]

\* { ...prev, [k]: !prev[k] }
FlipNoSpread(prev, k) == [x \in {k} |-> ~Truthy(prev, k)]
Flip(prev, k) ==
    [x \in DOMAIN prev \cup {k} |-> IF x = k THEN ~Truthy(prev, k) ELSE prev[x]]

DigitChar(d) ==
    CASE d = 0 -> "0" [] d = 1 -> "1" [] d = 2 -> "2" [] d = 3 -> "3"
      [] d = 4 -> "4" [] d = 5 -> "5" [] d = 6 -> "6" [] d = 7 -> "7"
      [] d = 8 -> "8" [] d = 9 -> "9"

DigitValue(c) ==
    CASE c = "0" -> 0 [] c = "1" -> 1 [] c = "2" -> 2 [] c = "3" -> 3
      [] c = "4" -> 4 [] c = "5" -> 5 [] c = "6" -> 6 [] c = "7" -> 7
      [] c = "8" -> 8 [] c = "9" -> 9

\* `${n}` for a non-negative integer
RECURSIVE NumberToString(_)
NumberToString(n) ==
    IF n < 10 THEN <<DigitChar(n)>>
    ELSE NumberToString(n \div 10) \o <<DigitChar(n % 10)>>

\* Number(s) for a string of decimal digits
RECURSIVE Number(_)
Number(s) ==
    IF Len(s) = 0 THEN 0
    ELSE 10 * Number(SubSeq(s, 1, Len(s) - 1)) + DigitValue(s[Len(s)])

\* `${topicIdx}-${subtypeIdx}`
SubtypeKeyNoSeparator(topicIdx, subtypeIdx) ==
    NumberToString(topicIdx) \o NumberToString(subtypeIdx)
SubtypeKey(topicIdx, subtypeIdx) ==
    NumberToString(topicIdx) \o <<"-">> \o NumberToString(subtypeIdx)

--------------------------------------------------------------------------
(* Taxonomy Store: database.json as its entries in source order *)

Sub(examples) == [examples |-> examples]
Topic(subtypes) == [subtypes |-> subtypes]
Entry(key, value) == [key |-> key, value |-> value]

\* entries of the document that leave `subtypes` or `examples` out
TopicWithoutSubtypes == [type |-> "t"]
SubWithoutExamples == [type |-> "s"]

\* topic.subtypes ?? []
SubsOf(topic) == IF "subtypes" \in DOMAIN topic THEN topic.subtypes ELSE <<>>

\* sub.examples && sub.examples.length > 0 ? sub.examples : nothing
ExamplesOf(sub) == IF "examples" \in DOMAIN sub THEN sub.examples ELSE <<>>

\* one topic, one subtype, one example link
DbSingle ==
    << Entry(<<"1">>, Topic(<< Sub(<<"u1">>) >>)) >>

\* one topic, one subtype, two example links
DbPair ==
    << Entry(<<"1">>, Topic(<< Sub(<<"u1", "u2">>) >>)) >>

\* three topics under keys "1", "2", "10"; the subtypes have no example and
\* the last topic has no subtype
DbWide ==
    << Entry(<<"1">>, Topic(<< Sub(<<>>), Sub(<<>>) >>)),
       Entry(<<"2">>, Topic(<< Sub(<<>>), Sub(<<>>) >>)),
       Entry(<<"1", "0">>, Topic(<<>>)) >>

\* keys "10", "02", "1" in that source order: a topic without `subtypes`, a
\* topic whose only subtype has no `examples`, a topic with `subtypes: []`
DbSparse ==
    << Entry(<<"1", "0">>, TopicWithoutSubtypes),
       Entry(<<"0", "2">>, Topic(<< SubWithoutExamples >>)),
       Entry(<<"1">>, Topic(<<>>)) >>

Databases == {DbSingle, DbPair, DbWide, DbSparse}

\* a key that is a canonical array index ("2", "10", not "02")
IsArrayIndex(key) == key = NumberToString(Number(key))

\* Object.entries: the array-index keys in ascending numeric order, then the
\* other keys in source order
ObjectEntries(doc) ==
    LET indexed == SelectSeq(doc, LAMBDA e : IsArrayIndex(e.key))
        others == SelectSeq(doc, LAMBDA e : ~IsArrayIndex(e.key))
        set == {indexed[i] : i \in 1..Len(indexed)}
    IN [i \in 1..Len(indexed) |->
           CHOOSE e \in set :
              Cardinality({f \in set : Number(f.key) < Number(e.key)}) = i - 1]
       \o others

\* entries.sort(([a], [b]) => Number(a) - Number(b)): a stable sort
RECURSIVE InsertSorted(_, _)
InsertSorted(e, sorted) ==
    IF sorted = <<>> THEN <<e>>
    ELSE IF Number(e.key) - Number(sorted[Len(sorted)].key) >= 0
         THEN Append(sorted, e)
         ELSE Append(InsertSorted(e, SubSeq(sorted, 1, Len(sorted) - 1)),
                     sorted[Len(sorted)])

RECURSIVE SortEntries(_)
SortEntries(entries) ==
    IF entries = <<>> THEN <<>>
    ELSE InsertSorted(entries[Len(entries)],
                      SortEntries(SubSeq(entries, 1, Len(entries) - 1)))

\* Object.entries(topicsData).sort(...).map(([, value]) => value)
SortedTopicsUnsorted(db) ==
    LET sorted == ObjectEntries(db)
    IN [i \in 1..Len(sorted) |-> sorted[i].value]
SortedTopics(db) ==
    LET sorted == SortEntries(ObjectEntries(db))
    IN [i \in 1..Len(sorted) |-> sorted[i].value]

--------------------------------------------------------------------------
(* Taxonomy View: what is rendered *)

TopicIdx == 0..(Len(topics) - 1)
Subs(tIdx) == SubsOf(topics[tIdx + 1])
SubIdx(tIdx) == 0..(Len(Subs(tIdx)) - 1)
Examples(tIdx, sIdx) == ExamplesOf(Subs(tIdx)[sIdx + 1])

\* pages 2 and 3 render each example as a VideoPreview; page 1 renders a plain link
HasPreviews == variant \in {2, 3}

\* every example position <<topic, subtype, example>> in render order
RECURSIVE SlotsFrom(_, _, _, _)
SlotsFrom(ts, t, s, i) ==
    IF t >= Len(ts) THEN <<>>
    ELSE IF s >= Len(SubsOf(ts[t + 1])) THEN SlotsFrom(ts, t + 1, 0, 0)
    ELSE IF i >= Len(ExamplesOf(SubsOf(ts[t + 1])[s + 1])) THEN SlotsFrom(ts, t, s + 1, 0)
    ELSE <<(<<t, s, i>>)>> \o SlotsFrom(ts, t, s, i + 1)

AllSlots(ts) == SlotsFrom(ts, 0, 0, 0)

\* isOpen && subOpen: the VideoPreview at this position is in the tree
ShownTopicOnly(et, es, slot) == Truthy(et, slot[1])
Shown(et, es, slot) == Truthy(et, slot[1]) /\ Truthy(es, SubtypeKey(slot[1], slot[2]))

\* useState defaults of the three pages
DefaultExpandedTopics(v, ts) ==
    CASE v = 1 -> <<>>
      [] v = 2 -> [idx \in 0..(Len(ts) - 1) |-> TRUE]
      [] v = 3 -> IF Len(ts) > 0 THEN [idx \in {0} |-> TRUE] ELSE <<>>

DefaultExpandedSubtypes(v, ts) ==
    CASE v = 1 -> <<>>
      [] v = 2 -> [k \in UNION {{SubtypeKey(t, s) : s \in 0..(Len(SubsOf(ts[t + 1])) - 1)} :
                                  t \in 0..(Len(ts) - 1)} |-> TRUE]
      [] v = 3 -> <<>>

--------------------------------------------------------------------------
(* Link Preview Resolver: one record per VideoPreview instance *)

\* what fetch() settles with
FetchOutcomes == {"neterr", "non2xx", "ok"}

\* what res.json() settles with: a rejection, the JSON value null, or an object
JsonNull == [kind |-> "null"]
Malformed == [kind |-> "malformed"]
JsonObject(title, thumbnail_url) ==
    [kind |-> "object", title |-> title, thumbnail_url |-> thumbnail_url]
Bodies ==
    { Malformed, JsonNull,
      JsonObject(Null, Null),
      JsonObject(Some(""), Some("img")),
      JsonObject(Some("T"), Some("img")) }

Pending == [kind |-> "pending"]
NetErr == [kind |-> "neterr"]
Non2xx == [kind |-> "non2xx"]

\* useState(null), useState(null), useState(false); `cancelled` is the effect's local
NewLookup(slot, url) ==
    [ slot |-> slot, url |-> url,
      title |-> Null, thumb |-> Null, failed |-> FALSE,
      cancelled |-> FALSE,
      pc |-> "fetching",       \* fetching -> reading (res.json()) -> settled
      resp |-> Pending,        \* what the network answered
      applied |-> 0,           \* how many handlers called a state setter
      unhandled |-> FALSE ]    \* the chain's last promise rejected

\* the effect's cleanup
Cleanup(l) == [l EXCEPT !.cancelled = TRUE]

\* .then((json) => { if (cancelled) return; setTitle(...); setThumb(...); })
\* ok = FALSE: the handler threw (json.title on null)
OnJsonThrowsAfterTitle(l, json) ==
    IF l.cancelled THEN [l |-> l, ok |-> TRUE]
    ELSE IF json = JsonNull THEN [l |-> l, ok |-> FALSE]
    ELSE IF json.thumbnail_url = Null
         THEN [l |-> [l EXCEPT !.title = OrElse(json.title, Some(l.url)),
                               !.applied = @ + 1],
               ok |-> FALSE]
         ELSE [l |-> [l EXCEPT !.title = OrElse(json.title, Some(l.url)),
                               !.thumb = OrElse(json.thumbnail_url, Null),
                               !.applied = @ + 1],
               ok |-> TRUE]
OnJsonNoFallback(l, json) ==
    IF l.cancelled THEN [l |-> l, ok |-> TRUE]
    ELSE IF json = JsonNull THEN [l |-> l, ok |-> FALSE]
    ELSE [l |-> [l EXCEPT !.title = json.title,
                          !.thumb = OrElse(json.thumbnail_url, Null),
                          !.applied = @ + 1],
          ok |-> TRUE]
OnJson(l, json) ==
    IF l.cancelled THEN [l |-> l, ok |-> TRUE]
    ELSE IF json = JsonNull THEN [l |-> l, ok |-> FALSE]
    ELSE [l |-> [l EXCEPT !.title = OrElse(json.title, Some(l.url)),
                          !.thumb = OrElse(json.thumbnail_url, Null),
                          !.applied = @ + 1],
          ok |-> TRUE]

\* .catch(() => { if (cancelled) return; setFailed(true); })
OnCatchNoGuard(l) == [l EXCEPT !.failed = TRUE, !.applied = @ + 1]
OnCatch(l) ==
    IF l.cancelled THEN l ELSE [l EXCEPT !.failed = TRUE, !.applied = @ + 1]

\* the tail of the chain: a rejection reaching .catch is handled there
NoCatchStage(r) == r
CatchStage(r) == IF r.ok THEN r ELSE [l |-> OnCatch(r.l), ok |-> TRUE]

\* the chain has run to its end
Finish(r, resp) ==
    [r.l EXCEPT !.pc = "settled", !.resp = resp, !.unhandled = ~r.ok]

\* if (failed) return <a ...>{url}</a>; else the card
Presentation(l) == IF l.failed THEN "plain-link" ELSE "card"

--------------------------------------------------------------------------
(* Taxonomy View: state after construction and the event handlers *)

InitialLookups(v, ts) ==
    IF v \in {2, 3}
    THEN LET all == AllSlots(ts)
             shown == SelectSeq(all, LAMBDA slot :
                          Shown(DefaultExpandedTopics(v, ts),
                                DefaultExpandedSubtypes(v, ts), slot))
         IN [n \in 1..Len(shown) |->
                NewLookup(shown[n],
                          ExamplesOf(SubsOf(ts[shown[n][1] + 1])[shown[n][2] + 1])[shown[n][3] + 1])]
    ELSE <<>>

RouterIdle == [kind |-> "idle"]
FormatIdle == <<>>

\* what an open topic shows under its button; page 1 reads
\* topic.subtypes.length, pages 2 and 3 read (topic.subtypes ?? []).length
TopicNode(v, topic, isOpen) ==
    IF ~isOpen THEN "collapsed"
    ELSE IF v = 1 /\ "subtypes" \notin DOMAIN topic THEN "throws"
    ELSE IF Len(SubsOf(topic)) = 0 THEN "No subtypes"
    ELSE "list"

\* what an open subtype shows under its button
SubNode(sub, subOpen) ==
    IF ~subOpen THEN "collapsed"
    ELSE IF "examples" \in DOMAIN sub /\ Len(sub.examples) > 0 THEN "list"
    ELSE "No examples"

\* rendering the page with these flags throws a TypeError
RenderThrows(v, ts, et) ==
    \E t \in 0..(Len(ts) - 1) : TopicNode(v, ts[t + 1], Truthy(et, t)) = "throws"

ViewInit ==
    /\ variant \in {1, 2, 3}
    /\ topicsData \in Databases
    /\ topics = SortedTopics(topicsData)
    /\ expandedTopics = DefaultExpandedTopics(variant, topics)
    /\ expandedSubtypes = DefaultExpandedSubtypes(variant, topics)
    /\ lookups = InitialLookups(variant, topics)
    /\ alive = TRUE

Init ==
    /\ ViewInit
    /\ request = RouterIdle /\ routed = RouterIdle
    /\ text = FormatIdle /\ parts = FormatIdle

\* the commit after a state change: previews that left the tree run their
\* cleanup, previews that entered it mount and start their lookup
Commit(et, es) ==
    LET kept == [n \in 1..Len(lookups) |->
                    IF ~lookups[n].cancelled /\ ~Shown(et, es, lookups[n].slot)
                    THEN Cleanup(lookups[n]) ELSE lookups[n]]
        entering == SelectSeq(AllSlots(topics), LAMBDA slot :
                        /\ HasPreviews
                        /\ Shown(et, es, slot)
                        /\ ~Shown(expandedTopics, expandedSubtypes, slot))
        fresh == [n \in 1..Len(entering) |->
                    NewLookup(entering[n], Examples(entering[n][1], entering[n][2])[entering[n][3] + 1])]
    IN kept \o fresh

CommitFits(et, es) == Len(Commit(et, es)) <= MaxLookups

toggleTopicResetsSubtypes(idx) ==
    /\ alive
    /\ idx \in TopicIdx
    /\ CommitFits(Flip(expandedTopics, idx), <<>>)
    /\ expandedTopics' = Flip(expandedTopics, idx)
    /\ expandedSubtypes' = <<>>
    /\ lookups' = Commit(expandedTopics', expandedSubtypes')
    /\ alive' = ~RenderThrows(variant, topics, expandedTopics')
    /\ UNCHANGED <<variant, topicsData, topics>>
    /\ UNCHANGED <<routerVars, formatVars>>
toggleTopic(idx) ==
    /\ alive
    /\ idx \in TopicIdx
    /\ CommitFits(Flip(expandedTopics, idx), expandedSubtypes)
    /\ expandedTopics' = Flip(expandedTopics, idx)
    /\ lookups' = Commit(expandedTopics', expandedSubtypes)
    /\ alive' = ~RenderThrows(variant, topics, expandedTopics')
    /\ UNCHANGED <<variant, topicsData, topics, expandedSubtypes>>
    /\ UNCHANGED <<routerVars, formatVars>>

\* the subtype's button is rendered only while its topic is open
toggleSubtype(topicIdx, subtypeIdx) ==
    /\ alive
    /\ topicIdx \in TopicIdx
    /\ subtypeIdx \in SubIdx(topicIdx)
    /\ Truthy(expandedTopics, topicIdx)
    /\ LET key == SubtypeKey(topicIdx, subtypeIdx) IN
         /\ CommitFits(expandedTopics, Flip(expandedSubtypes, key))
         /\ expandedSubtypes' = Flip(expandedSubtypes, key)
    /\ lookups' = Commit(expandedTopics, expandedSubtypes')
    /\ UNCHANGED <<variant, topicsData, topics, expandedTopics, alive>>
    /\ UNCHANGED <<routerVars, formatVars>>

\* the page is torn down: every mounted preview runs its cleanup
Teardown ==
    /\ alive
    /\ alive' = FALSE
    /\ lookups' = [n \in 1..Len(lookups) |->
                      IF lookups[n].cancelled THEN lookups[n] ELSE Cleanup(lookups[n])]
    /\ UNCHANGED <<variant, topicsData, topics, expandedTopics, expandedSubtypes>>
    /\ UNCHANGED <<routerVars, formatVars>>

\* fetch(endpoint) settles; .then((res) => (res.ok ? res.json() : Promise.reject()))
FetchSettle(n, outcome) ==
    /\ n \in 1..Len(lookups)
    /\ lookups[n].pc = "fetching"
    /\ lookups' = [lookups EXCEPT ![n] =
          CASE outcome = "ok" -> [@ EXCEPT !.pc = "reading"]
            [] outcome = "non2xx" -> Finish(CatchStage([l |-> @, ok |-> FALSE]), Non2xx)
            [] outcome = "neterr" -> Finish(CatchStage([l |-> @, ok |-> FALSE]), NetErr)]
    /\ UNCHANGED <<variant, topicsData, topics, expandedTopics, expandedSubtypes, alive>>
    /\ UNCHANGED <<routerVars, formatVars>>

\* res.json() settles and the rest of the chain runs
BodySettle(n, body) ==
    /\ n \in 1..Len(lookups)
    /\ lookups[n].pc = "reading"
    /\ lookups' = [lookups EXCEPT ![n] =
          IF body = Malformed
          THEN Finish(CatchStage([l |-> @, ok |-> FALSE]), body)
          ELSE Finish(CatchStage(OnJson(@, body)), body)]
    /\ UNCHANGED <<variant, topicsData, topics, expandedTopics, expandedSubtypes, alive>>
    /\ UNCHANGED <<routerVars, formatVars>>

Next ==
    \/ \E idx \in TopicIdx : toggleTopic(idx)
    \/ \E topicIdx \in TopicIdx : \E subtypeIdx \in SubIdx(topicIdx) :
          toggleSubtype(topicIdx, subtypeIdx)
    \/ Teardown
    \/ \E n \in 1..MaxLookups, outcome \in FetchOutcomes : FetchSettle(n, outcome)
    \/ \E n \in 1..MaxLookups, body \in Bodies : BodySettle(n, body)

Spec == Init /\ [][Next]_vars

\* every fetch and every body read completes
FairSpec ==
    /\ Init
    /\ [][Next]_vars
    /\ \A n \in 1..MaxLookups :
          /\ WF_vars(\E outcome \in FetchOutcomes : FetchSettle(n, outcome))
          /\ WF_vars(\E body \in Bodies : BodySettle(n, body))

--------------------------------------------------------------------------
(* Link Preview Resolver: properties *)

SameShownState(a, b) == a.title = b.title /\ a.thumb = b.thumb /\ a.failed = b.failed

\* C1: once a preview's cleanup has run (subtype or topic collapsed, page torn
\* down), no later step, in particular no completion of its fetch, changes its
\* title, thumb or failed state.
C1_NoUpdateAfterCleanup ==
    [][\A n \in DOMAIN lookups :
          lookups[n].cancelled => SameShownState(lookups'[n], lookups[n])]_vars

\* a fulfilled and a rejected lookup both completed after their cleanup and
\* left the preview's state as it was
C1_Witness ==
    /\ \E n \in DOMAIN lookups :
          /\ lookups[n].cancelled /\ lookups[n].pc = "settled"
          /\ lookups[n].resp.kind = "object" /\ lookups[n].applied = 0
          /\ lookups[n].title = Null /\ lookups[n].thumb = Null
    /\ \E n \in DOMAIN lookups :
          /\ lookups[n].cancelled /\ lookups[n].pc = "settled"
          /\ lookups[n].resp.kind \in {"neterr", "non2xx", "malformed"}
          /\ lookups[n].applied = 0 /\ ~lookups[n].failed

FailureKinds == {"neterr", "non2xx", "malformed"}

\* C2: a mounted preview whose lookup failed (network error, non-2xx response,
\* malformed body) is Failed, shows the plain-link fallback and has title and
\* thumb untouched; no chain ever ends in an unhandled rejection.
C2_FailureFallsBack ==
    \A n \in DOMAIN lookups :
       /\ ~lookups[n].unhandled
       /\ (/\ lookups[n].pc = "settled"
           /\ ~lookups[n].cancelled
           /\ lookups[n].resp.kind \in FailureKinds)
          => /\ lookups[n].failed
             /\ lookups[n].title = Null /\ lookups[n].thumb = Null
             /\ Presentation(lookups[n]) = "plain-link"

\* two mounted previews, one failed on a malformed body (after a 2xx answer),
\* the other on a transport-level failure
C2_Witness ==
    /\ \E n \in DOMAIN lookups :
          /\ lookups[n].pc = "settled" /\ ~lookups[n].cancelled
          /\ lookups[n].resp.kind = "malformed" /\ lookups[n].failed
    /\ \E n \in DOMAIN lookups :
          /\ lookups[n].pc = "settled" /\ ~lookups[n].cancelled
          /\ lookups[n].resp.kind \in {"neterr", "non2xx"} /\ lookups[n].failed

\* C3: no preview is both Resolved (title set) and Failed, and at most one
\* outcome is applied per lookup.
C3_SingleOutcome ==
    \A n \in DOMAIN lookups :
       /\ ~(lookups[n].title # Null /\ lookups[n].failed)
       /\ lookups[n].applied <= 1

\* both handlers ran (the body was the JSON value null: the then-handler threw
\* and the catch-handler took over) and still one outcome was applied
C3_Witness ==
    \E n \in DOMAIN lookups :
       /\ lookups[n].pc = "settled" /\ lookups[n].resp = JsonNull
       /\ lookups[n].applied = 1 /\ lookups[n].failed /\ lookups[n].title = Null

Mounted(n) == n \in DOMAIN lookups /\ ~lookups[n].cancelled
Unmounted(n) == n \in DOMAIN lookups /\ lookups[n].cancelled
Failed(n) == n \in DOMAIN lookups /\ lookups[n].pc = "settled" /\ lookups[n].failed

\* Resolved with the response's title, the URL standing in for an absent title
ResolvedIfAbsent(n) ==
    /\ n \in DOMAIN lookups
    /\ lookups[n].pc = "settled" /\ lookups[n].resp.kind = "object"
    /\ ~lookups[n].failed
    /\ lookups[n].title = IF lookups[n].resp.title = Null
                           THEN Some(lookups[n].url) ELSE lookups[n].resp.title

\* Resolved with the response's title, the URL standing in for an absent or
\* empty title
ResolvedIfFalsy(n) ==
    /\ n \in DOMAIN lookups
    /\ lookups[n].pc = "settled" /\ lookups[n].resp.kind = "object"
    /\ ~lookups[n].failed
    /\ lookups[n].title = IF lookups[n].resp.title \in {Null, Some("")}
                           THEN Some(lookups[n].url) ELSE lookups[n].resp.title

\* C4 (as stated): a mounted preview that has left Pending is Failed, or
\* Resolved with its title set to the response's title, or to the URL when the
\* response has no title.
C4_AsStated ==
    \A n \in DOMAIN lookups :
       (lookups[n].pc = "settled" /\ ~lookups[n].cancelled)
          => (Failed(n) \/ ResolvedIfAbsent(n))

\* C4 (amended): every lookup whose fetch completes and whose preview stays
\* mounted eventually leaves Pending for Failed or Resolved, the title being
\* the response's title, or the URL when that title is absent or empty; and
\* while the preview stays mounted that outcome no longer changes.
C4_EventuallySettles ==
    /\ \A n \in 1..MaxLookups :
          Mounted(n) ~> (Unmounted(n) \/ Failed(n) \/ ResolvedIfFalsy(n))
    /\ [][\A n \in DOMAIN lookups :
            (lookups[n].pc = "settled" /\ ~lookups'[n].cancelled)
               => /\ SameShownState(lookups'[n], lookups[n])
                  /\ lookups'[n].pc = "settled"]_vars

\* a mounted preview resolved from an answer whose title is the empty string
C4_Witness ==
    \E n \in DOMAIN lookups :
       /\ ~lookups[n].cancelled /\ lookups[n].pc = "settled"
       /\ lookups[n].resp.kind = "object" /\ lookups[n].resp.title = Some("")
       /\ lookups[n].title = Some(lookups[n].url)

--------------------------------------------------------------------------
(* Taxonomy View: properties *)

KeyIdx == 0..MaxKeyIdx

\* C5: toggleTopic(i) flips the expanded flag of topic i and leaves the flag of
\* every other topic and of every composite key as it was.
C5_ToggleTopicFrame ==
    [][\A idx \in KeyIdx :
          toggleTopic(idx) =>
             /\ Truthy(expandedTopics', idx) = ~Truthy(expandedTopics, idx)
             /\ \A j \in KeyIdx \ {idx} :
                   Truthy(expandedTopics', j) = Truthy(expandedTopics, j)
             /\ \A t \in KeyIdx, s \in KeyIdx :
                   Truthy(expandedSubtypes', SubtypeKey(t, s))
                      = Truthy(expandedSubtypes, SubtypeKey(t, s))]_vars

\* the second topic was toggled shut again while the first stayed open and the
\* second's own first subtype stayed expanded
C5_Witness ==
    /\ Truthy(expandedTopics, 0)
    /\ 1 \in DOMAIN expandedTopics /\ ~expandedTopics[1]
    /\ Truthy(expandedSubtypes, SubtypeKey(1, 0))

\* distinct (topic, subtype) pairs have distinct composite keys
KeysInjective ==
    \A t1 \in KeyIdx, s1 \in KeyIdx, t2 \in KeyIdx, s2 \in KeyIdx :
       SubtypeKey(t1, s1) = SubtypeKey(t2, s2) => (t1 = t2 /\ s1 = s2)

\* C6: toggleSubtype(t, s) flips the flag of the key "t-s", leaves the flag of
\* every other pair and of every topic as it was, and no two pairs share a key.
C6_ToggleSubtypeFrame ==
    [][/\ KeysInjective
       /\ \A t \in KeyIdx, s \in KeyIdx :
             toggleSubtype(t, s) =>
                /\ Truthy(expandedSubtypes', SubtypeKey(t, s))
                      = ~Truthy(expandedSubtypes, SubtypeKey(t, s))
                /\ \A t2 \in KeyIdx, s2 \in KeyIdx :
                      (<<t2, s2>> # <<t, s>>) =>
                         Truthy(expandedSubtypes', SubtypeKey(t2, s2))
                            = Truthy(expandedSubtypes, SubtypeKey(t2, s2))
                /\ \A j \in KeyIdx :
                      Truthy(expandedTopics', j) = Truthy(expandedTopics, j)]_vars

\* (0,1) is expanded while (0,0) was toggled back shut and (1,1) is expanded
C6_Witness ==
    /\ Truthy(expandedSubtypes, SubtypeKey(0, 1))
    /\ SubtypeKey(0, 0) \in DOMAIN expandedSubtypes
    /\ ~expandedSubtypes[SubtypeKey(0, 0)]
    /\ Truthy(expandedSubtypes, SubtypeKey(1, 1))

AbsentOrEmpty(node, field) == field \notin DOMAIN node \/ node[field] = <<>>

\* C11: whatever the document leaves out, rendering does not fail: an open
\* topic whose `subtypes` is absent or empty shows "No subtypes", an open
\* subtype whose `examples` is absent or empty shows "No examples", and every
\* other open node shows its list.
C11_AbsentCollectionsRenderEmpty ==
    /\ ~RenderThrows(variant, topics, expandedTopics)
    /\ \A t \in TopicIdx :
          Truthy(expandedTopics, t) =>
             /\ TopicNode(variant, topics[t + 1], TRUE) =
                   IF AbsentOrEmpty(topics[t + 1], "subtypes")
                   THEN "No subtypes" ELSE "list"
             /\ \A s \in SubIdx(t) :
                   Truthy(expandedSubtypes, SubtypeKey(t, s)) =>
                      SubNode(Subs(t)[s + 1], TRUE) =
                         IF AbsentOrEmpty(Subs(t)[s + 1], "examples")
                         THEN "No examples" ELSE "list"

\* the live lookups of one example position
LiveAt(ls, slot) == {n \in DOMAIN ls : ~ls[n].cancelled /\ ls[n].slot = slot}

\* the live lookups of one subtype
LiveUnder(ls, t, s) ==
    {n \in DOMAIN ls : ~ls[n].cancelled /\ ls[n].slot[1] = t /\ ls[n].slot[2] = s}

\* after the step every example of the subtype has exactly one live lookup,
\* started by the step and holding nothing but its URL
FreshLookupPerExample(t, s) ==
    \A i \in 0..(Len(Examples(t, s)) - 1) :
       /\ Cardinality(LiveAt(lookups', <<t, s, i>>)) = 1
       /\ \A n \in LiveAt(lookups', <<t, s, i>>) :
             /\ n \notin DOMAIN lookups
             /\ lookups'[n] = NewLookup(<<t, s, i>>, Examples(t, s)[i + 1])

\* C12: a lookup is live only while its subtype's composite key is expanded;
\* a step that collapses a subtype leaves none of its lookups live; a step
\* that expands it again starts exactly one lookup per example, each new and
\* holding no title, thumbnail or failure of an earlier one.
C12_PreviewsFollowSubtypeKey ==
    /\ [](\A n \in DOMAIN lookups :
            ~lookups[n].cancelled =>
               Truthy(expandedSubtypes,
                      SubtypeKey(lookups[n].slot[1], lookups[n].slot[2])))
    /\ [][\A t \in TopicIdx : \A s \in SubIdx(t) :
            LET key == SubtypeKey(t, s)
                was == Truthy(expandedSubtypes, key)
                is == Truthy(expandedSubtypes', key)
            IN /\ (was /\ ~is) => LiveUnder(lookups', t, s) = {}
               /\ (~was /\ is /\ HasPreviews) => FreshLookupPerExample(t, s)]_vars

\* a subtype expanded, its preview resolved, the subtype collapsed and expanded
\* again: the old preview is gone with its title, the new one is pending
C12_Witness ==
    /\ alive /\ Len(lookups) = 2
    /\ lookups[1].slot = lookups[2].slot
    /\ lookups[1].cancelled /\ lookups[1].title # Null
    /\ ~lookups[2].cancelled /\ lookups[2].title = Null /\ lookups[2].pc = "fetching"
    /\ Truthy(expandedSubtypes, SubtypeKey(lookups[2].slot[1], lookups[2].slot[2]))

\* the document's values by ascending numeric key
ByNumericKey(doc) ==
    LET set == {doc[i] : i \in 1..Len(doc)}
    IN [i \in 1..Len(doc) |->
          (CHOOSE e \in set :
              Cardinality({f \in set : Number(f.key) < Number(e.key)}) = i - 1).value]

\* C13: the displayed topics are the document's topics in ascending numeric
\* order of their keys ("10" after "2"), and no step changes the displayed
\* sequence of topics or of a topic's subtypes.
C13_TopicsInNumericKeyOrder ==
    /\ [](topics = ByNumericKey(topicsData))
    /\ [][/\ topics' = topics
          /\ \A t \in TopicIdx : SubsOf(topics'[t + 1]) = Subs(t)]_vars

\* the document lists its keys as "10", "02", "1"; after a topic toggle and a
\* subtype toggle the page shows them as "1", "02", "10"
C13_Witness ==
    /\ variant = 3
    /\ topicsData[1].key = <<"1", "0">> /\ topicsData[3].key = <<"1">>
    /\ topics = <<topicsData[3].value, topicsData[2].value, topicsData[1].value>>
    /\ Truthy(expandedTopics, 1)
    /\ Truthy(expandedSubtypes, SubtypeKey(1, 0))

\* C14: a step that collapses a topic leaves none of its lookups live and
\* keeps every composite-key flag; a lookup that is no longer live never
\* changes what it shows; a step that expands the topic keeps the flags too,
\* starts one new lookup per example of each subtype whose flag is set and
\* none for the others.
C14_TopicCollapseKeepsSubtypeFlags ==
    [][/\ \A t \in TopicIdx :
            LET was == Truthy(expandedTopics, t)
                is == Truthy(expandedTopics', t)
            IN /\ (was /\ ~is) =>
                     /\ expandedSubtypes' = expandedSubtypes
                     /\ \A s \in SubIdx(t) : LiveUnder(lookups', t, s) = {}
               /\ (~was /\ is) =>
                     /\ expandedSubtypes' = expandedSubtypes
                     /\ \A s \in SubIdx(t) :
                           IF Truthy(expandedSubtypes, SubtypeKey(t, s)) /\ HasPreviews
                           THEN FreshLookupPerExample(t, s)
                           ELSE LiveUnder(lookups', t, s) = {}
       /\ \A n \in DOMAIN lookups :
            lookups[n].cancelled =>
               /\ lookups'[n].cancelled
               /\ lookups'[n].title = lookups[n].title
               /\ lookups'[n].thumb = lookups[n].thumb
               /\ lookups'[n].failed = lookups[n].failed]_vars

\* a topic collapsed over an expanded subtype: the flag is still set, the one
\* preview was unmounted and its answer, a JSON object, was discarded
C14_Witness ==
    /\ alive /\ Len(lookups) = 1
    /\ lookups[1].slot[1] \in DOMAIN expandedTopics
    /\ ~expandedTopics[lookups[1].slot[1]]
    /\ Truthy(expandedSubtypes, SubtypeKey(lookups[1].slot[1], lookups[1].slot[2]))
    /\ lookups[1].cancelled /\ lookups[1].pc = "settled"
    /\ lookups[1].resp.kind = "object" /\ lookups[1].applied = 0
    /\ lookups[1].title = Null

--------------------------------------------------------------------------
(* Strings as character sequences *)

\* s.startsWith(prefix)
StartsWith(s, prefix) ==
    Len(s) >= Len(prefix) /\ SubSeq(s, 1, Len(prefix)) = prefix

\* s.includes(piece)
Includes(s, piece) ==
    \E i \in 1..(Len(s) - Len(piece) + 1) : SubSeq(s, i, i + Len(piece) - 1) = piece

\* s.indexOf(c) + 1: the 1-based place of the first c, 0 when there is none
FirstIndex(s, c) ==
    IF \E i \in 1..Len(s) : s[i] = c
    THEN CHOOSE i \in 1..Len(s) : s[i] = c /\ \A j \in 1..(i - 1) : s[j] # c
    ELSE 0

\* s.split(c)[0]
SplitFirst(s, c) ==
    IF FirstIndex(s, c) = 0 THEN s ELSE SubSeq(s, 1, FirstIndex(s, c) - 1)

--------------------------------------------------------------------------
(* Host Router: middleware and its matcher, three variants *)
(*   1: src/middleware.ts              titles. -> /titles                *)
(*   2: src/unnamed/part_001, first    topics. -> /topics                *)
(*   3: src/unnamed/part_001, second   titles. -> /titles<path>          *)

sTitles == <<"t", "i", "t", "l", "e", "s">>
sTopics == <<"t", "o", "p", "i", "c", "s">>
sExampleCom == <<"e", "x", "a", "m", "p", "l", "e", ".", "c", "o", "m">>
sPort == <<":", "3", "0", "0", "0">>
sNext == <<"_", "n", "e", "x", "t">>
sFavicon == <<"f", "a", "v", "i", "c", "o", "n", ".", "i", "c", "o">>
sPublic == <<"p", "u", "b", "l", "i", "c">>

RouterVariants == {1, 2, 3}

\* the subdomain each variant tests for, with its dot
SubdomainPrefix(v) == IF v = 2 THEN sTopics \o <<".">> ELSE sTitles \o <<".">>

\* the page each variant routes to
TargetPage(v) == IF v = 2 THEN <<"/">> \o sTopics ELSE <<"/">> \o sTitles

\* request.headers.get("host") || ""
HostOrEmpty(header) == IF header.present THEN header.value ELSE <<>>

Header(value) == [present |-> TRUE, value |-> value]
NoHeader == [present |-> FALSE, value |-> <<>>]

PassThrough(pathname) == [kind |-> "next", pathname |-> pathname]
Rewrite(pathname) == [kind |-> "rewrite", pathname |-> pathname]

\* hostname.startsWith("titles.")
HostIncludes(hostname, prefix) == Includes(hostname, prefix)
HostMatches(hostname, prefix) == StartsWith(hostname, prefix)

\* the allow-list of variants 1 and 2
IsInternalPath(pathname) ==
    \/ StartsWith(pathname, <<"/">> \o sNext)
    \/ pathname = <<"/">> \o sFavicon
    \/ StartsWith(pathname, <<"/">> \o sPublic \o <<"/">>)

\* middleware of variants 1 and 2
middlewareRootOnly(v, header, pathname) ==
    LET hostname == SplitFirst(HostOrEmpty(header), ":") IN
    IF HostMatches(hostname, SubdomainPrefix(v))
    THEN IF IsInternalPath(pathname) THEN PassThrough(pathname)
         ELSE IF pathname = <<"/">> THEN Rewrite(TargetPage(v))
         ELSE PassThrough(pathname)
    ELSE PassThrough(pathname)
middlewareFixed(v, header, pathname) ==
    LET hostname == SplitFirst(HostOrEmpty(header), ":") IN
    IF HostMatches(hostname, SubdomainPrefix(v))
    THEN IF IsInternalPath(pathname) THEN PassThrough(pathname)
         ELSE IF pathname # TargetPage(v) THEN Rewrite(TargetPage(v))
         ELSE PassThrough(pathname)
    ELSE PassThrough(pathname)

\* middleware of variant 3: the host is tested with its port
middlewarePrefixingAlways(v, header, pathname) ==
    LET host == HostOrEmpty(header) IN
    IF HostMatches(host, SubdomainPrefix(v))
    THEN IF pathname = <<"/">> \/ pathname = <<>> THEN Rewrite(TargetPage(v))
         ELSE Rewrite(TargetPage(v) \o pathname)
    ELSE PassThrough(pathname)
middlewarePrefixing(v, header, pathname) ==
    LET host == HostOrEmpty(header) IN
    IF HostMatches(host, SubdomainPrefix(v))
    THEN IF pathname = <<"/">> \/ pathname = <<>> THEN Rewrite(TargetPage(v))
         ELSE IF ~StartsWith(pathname, TargetPage(v))
              THEN Rewrite(TargetPage(v) \o pathname)
              ELSE PassThrough(pathname)
    ELSE PassThrough(pathname)

\* "favicon.ico" inside a regular expression: the dot matches any character
MatchesFaviconPattern(rest) ==
    /\ Len(rest) >= Len(sFavicon)
    /\ SubSeq(rest, 1, 7) = SubSeq(sFavicon, 1, 7)
    /\ SubSeq(rest, 9, 11) = SubSeq(sFavicon, 9, 11)

\* config.matcher: "/:path*" (variants 1, 2),
\* "/((?!_next/static|_next/image|favicon.ico).*)" (variant 3)
Matcher(v, pathname) ==
    IF v \in {1, 2} THEN TRUE
    ELSE /\ StartsWith(pathname, <<"/">>)
         /\ LET rest == SubSeq(pathname, 2, Len(pathname)) IN
              /\ ~StartsWith(rest, sNext \o <<"/", "s", "t", "a", "t", "i", "c">>)
              /\ ~StartsWith(rest, sNext \o <<"/", "i", "m", "a", "g", "e">>)
              /\ ~MatchesFaviconPattern(rest)

\* the router: the middleware runs on the paths its matcher selects
Router(v, header, pathname) ==
    IF ~Matcher(v, pathname) THEN PassThrough(pathname)
    ELSE IF v \in {1, 2} THEN middlewareFixed(v, header, pathname)
    ELSE middlewarePrefixing(v, header, pathname)

Hosts ==
    { NoHeader,
      Header(<<>>),
      Header(sExampleCom),
      Header(sExampleCom \o sPort),
      Header(sTitles \o <<".">> \o sExampleCom),
      Header(sTopics \o <<".">> \o sExampleCom),
      Header(sTitles \o <<".">> \o sExampleCom \o sPort),
      Header(sTopics \o <<".">> \o sExampleCom \o sPort),
      Header(<<"w", "w", "w", ".">> \o sTitles \o <<".">> \o sExampleCom),
      Header(<<"w", "w", "w", ".">> \o sTopics \o <<".">> \o sExampleCom),
      Header(sTitles),
      Header(sTopics \o sPort),
      Header(sTitles \o <<"x", ".">> \o sExampleCom),
      Header(sExampleCom \o <<":">> \o sTitles \o <<".">>) }

Paths ==
    { <<"/">>,
      <<"/", "a">>,
      <<"/">> \o sTitles,
      <<"/">> \o sTopics,
      <<"/">> \o sTitles \o <<"/", "a">>,
      <<"/">> \o sTopics \o <<"/", "a">>,
      <<"/">> \o sTitles \o <<"x">>,
      <<"/">> \o sNext,
      <<"/">> \o sNext \o <<"x">>,
      <<"/">> \o sNext \o <<"/", "s", "t", "a", "t", "i", "c">> \o <<"/", "x", ".", "j", "s">>,
      <<"/">> \o sNext \o <<"/", "i", "m", "a", "g", "e">>,
      <<"/">> \o sNext \o <<"/", "d", "a", "t", "a", "/", "a">>,
      <<"/">> \o sFavicon,
      <<"/">> \o sPublic,
      <<"/">> \o sPublic \o <<"/", "a">>,
      <<"/", "a", "/">> \o sPublic \o <<"/", "a">> }

RouterInit ==
    /\ request \in [variant : RouterVariants, host : Hosts, pathname : Paths,
                    resubmitted : {FALSE}]
    /\ routed = RouterIdle
    /\ variant = 1 /\ topicsData = <<>> /\ topics = <<>> /\ expandedTopics = <<>>
    /\ expandedSubtypes = <<>> /\ lookups = <<>> /\ alive = FALSE
    /\ text = FormatIdle /\ parts = FormatIdle

\* one request goes through the router
Route ==
    /\ routed = RouterIdle
    /\ routed' = Router(request.variant, request.host, request.pathname)
    /\ UNCHANGED <<request, viewVars, formatVars>>

\* rewriteUrl.pathname = ...; NextResponse.rewrite(rewriteUrl): the rewritten
\* URL, host unchanged, is given to the router as a request of its own
Resubmit ==
    /\ routed # RouterIdle
    /\ routed.kind = "rewrite"
    /\ ~request.resubmitted
    /\ request' = [request EXCEPT !.pathname = routed.pathname, !.resubmitted = TRUE]
    /\ routed' = RouterIdle
    /\ UNCHANGED <<viewVars, formatVars>>

RouterNext == Route \/ Resubmit

RouterSpec == RouterInit /\ [][RouterNext]_vars

--------------------------------------------------------------------------
(* Host Router: properties *)

\* the host without its port has a first dot, and the label before it is sub
LeadingLabelIs(header, sub) ==
    LET hostname == SplitFirst(HostOrEmpty(header), ":")
        dot == FirstIndex(hostname, ".")
    IN dot > 0 /\ SubSeq(hostname, 1, dot - 1) = sub

ConfiguredSubdomain(v) == IF v = 2 THEN sTopics ELSE sTitles

\* under /_next, /favicon.ico, under /public/
FrameworkOrStaticPath(pathname) ==
    \/ StartsWith(pathname, <<"/">> \o sNext)
    \/ pathname = <<"/">> \o sFavicon
    \/ StartsWith(pathname, <<"/">> \o sPublic \o <<"/">>)

C8_OtherHostsPassThrough ==
    routed # RouterIdle =>
       (~LeadingLabelIs(request.host, ConfiguredSubdomain(request.variant))
          => routed = PassThrough(request.pathname))

\* www.titles.example.com asked for / and was passed through
C8_Witness ==
    /\ request.host = Header(<<"w", "w", "w", ".">> \o sTitles \o <<".">> \o sExampleCom)
    /\ request.variant \in {1, 3}
    /\ request.pathname = <<"/">>
    /\ routed = PassThrough(<<"/">>)

\* C9: a path under /_next, /favicon.ico or under /public/ is passed through
\* unrewritten whatever the host, in each variant, the matcher included.
C9_InternalPathsPassThrough ==
    routed # RouterIdle =>
       (FrameworkOrStaticPath(request.pathname)
          => routed = PassThrough(request.pathname))

\* C15: in each variant, for every host and path, the path a rewrite produced
\* is passed through unmodified when the router sees it again with the same
\* host; no request is rewritten twice.
C15_RewriteIsIdempotent ==
    (request # RouterIdle /\ request.resubmitted /\ routed # RouterIdle)
       => routed = PassThrough(request.pathname)

\* titles.example.com asked for /a, the sub-path-preserving variant made it
\* /titles/a, and /titles/a came back unmodified
C15_Witness ==
    /\ request # RouterIdle
    /\ request.variant = 3 /\ request.resubmitted
    /\ request.host = Header(sTitles \o <<".">> \o sExampleCom)
    /\ request.pathname = <<"/">> \o sTitles \o <<"/", "a">>
    /\ routed = PassThrough(<<"/">> \o sTitles \o <<"/", "a">>)

--------------------------------------------------------------------------
(* Emphasis Formatter: formatEmphasis *)

Alphabet == {"*", "a", " "}
Texts == UNION {[1..k -> Alphabet] : k \in 0..MaxTextLen}

\* where a match of /\*[^*]+\*/ that starts at q ends; 0 when there is none:
\* a star, one or more characters that are not stars, a star
MatchEnd(s, q) ==
    IF /\ q + 2 <= Len(s)
       /\ s[q] = "*"
       /\ s[q + 1] # "*"
       /\ \E r \in (q + 2)..Len(s) : s[r] = "*"
    THEN CHOOSE r \in (q + 2)..Len(s) :
            s[r] = "*" /\ \A j \in (q + 1)..(r - 1) : s[j] # "*"
    ELSE 0

\* text.split(/(\*[^*]+\*)/g): the pieces between the matches with the matches
\* themselves (the capture group) kept; p starts the current piece, q scans
RECURSIVE SplitFrom(_, _, _)
SplitFrom(s, p, q) ==
    IF q > Len(s) THEN <<SubSeq(s, p, Len(s))>>
    ELSE IF MatchEnd(s, q) > 0
         THEN <<SubSeq(s, p, q - 1), SubSeq(s, q, MatchEnd(s, q))>>
                 \o SplitFrom(s, MatchEnd(s, q) + 1, MatchEnd(s, q) + 1)
         ELSE SplitFrom(s, p, q + 1)

Split(s) == SplitFrom(s, 1, 1)

Em(inner) == [em |-> TRUE, text |-> inner]
Plain(part) == [em |-> FALSE, text |-> part]

\* parts.map: <em>{part.slice(1, -1)}</em> when the part starts and ends with a
\* star and has at least two characters, the part itself otherwise
formatEmphasis(s) ==
    LET pieces == Split(s) IN
    [i \in 1..Len(pieces) |->
        IF /\ StartsWith(pieces[i], <<"*">>)
           /\ Len(pieces[i]) >= 1 /\ pieces[i][Len(pieces[i])] = "*"
           /\ Len(pieces[i]) >= 2
        THEN Em(SubSeq(pieces[i], 2, Len(pieces[i]) - 1))
        ELSE Plain(pieces[i])]

FormatInit ==
    /\ text \in Texts
    /\ parts = FormatIdle
    /\ variant = 1 /\ topicsData = <<>> /\ topics = <<>> /\ expandedTopics = <<>>
    /\ expandedSubtypes = <<>> /\ lookups = <<>> /\ alive = FALSE
    /\ request = RouterIdle /\ routed = RouterIdle

\* a label is rendered
Format ==
    /\ parts = FormatIdle
    /\ parts' = formatEmphasis(text)
    /\ UNCHANGED <<text, viewVars, routerVars>>

FormatNext == Format

FormatSpec == FormatInit /\ [][FormatNext]_vars

--------------------------------------------------------------------------
(* Emphasis Formatter: properties *)

Chars(s) == {s[i] : i \in 1..Len(s)}

\* C10: every emphasized segment has non-empty text without a star, and a text
\* made of stars alone ("*", "**", "***") yields no emphasized segment.
C10_EmphasisNonEmptyNoStar ==
    parts # FormatIdle =>
       /\ \A i \in 1..Len(parts) :
             parts[i].em => (parts[i].text # <<>> /\ "*" \notin Chars(parts[i].text))
       /\ (text # <<>> /\ Chars(text) = {"*"}) => \A i \in 1..Len(parts) : ~parts[i].em

==========================================================================
